---- MODULE Spec2Model ----
(***************************************************************************)
(* Model of src/main.py: the dependency expression parser, the metadata    *)
(* parser (PackageParser), the graph builder and the load order planner    *)
(* (DependencyGraph).                                                      *)
(*                                                                         *)
(* A Python str is a sequence of one-character strings, so that lower(),   *)
(* substring search, split() and the two re.sub() calls are computed       *)
(* character by character.  Iterating a Python set (for x in s, list(s))   *)
(* visits its members in an order that the hash seed of the run decides:   *)
(* every order is a possible outcome and the model chooses among them.     *)
(***************************************************************************)
EXTENDS Integers, Sequences, FiniteSets, TLC

VARIABLES
    \* PackageParser
    packages_content,  \* PackageParser.packages_content (the metadata text)
    packages,          \* PackageParser.packages: name -> record of two sets
    parser_pc,         \* "new", then "ready" or the exception __init__ raised
    lookup,            \* the direct get_package_dependencies call made since
                       \* the last build, with what it raised and returned
    \* PackageParser._parse_dependencies_line, called on its own
    deps_line,         \* the argument
    expr,              \* the expression deps_line was rendered from, or <<>>
    deps_result,       \* what the call raised and returned, or "NotCalled"
    \* DependencyGraph
    filter_arg,        \* the filter_substring argument of __init__
    filter_substring,  \* DependencyGraph.filter_substring
    graph,             \* DependencyGraph.graph
    visited,           \* DependencyGraph.visited
    cycles,            \* DependencyGraph.cycles
    root_package,      \* argument of the running / last build_graph_bfs
    stack,             \* activations of _bfs_with_recursion inside their loop
    pc,                \* "idle" | "build" | "order"
    nbuilds,           \* build_graph_bfs calls made so far
    prev,              \* what the previous build_graph_bfs call left behind
    entered,           \* calls of _bfs_with_recursion per package, this build
    fresh,             \* a second DependencyGraph, constructed when the last
                       \* build_graph_bfs call began and given the same call
    \* DependencyGraph.get_load_order
    lo_root,           \* its argument
    in_degree,         \* local in_degree
    queue,             \* local queue
    processed,         \* local processed
    result,            \* local result, the returned list once finished
    lo_done,           \* TRUE when result is a returned value
    norders,           \* get_load_order calls since the last build
    prev_order,        \* the list the previous call returned, with its argument
    \* ConfigParser
    config_file,       \* what config_path names on disk
    config_outcome     \* what load_config raised and returned, or "NotCalled"

parserVars == <<packages_content, packages, parser_pc, lookup>>
depsVars   == <<deps_line, expr, deps_result>>
buildVars  == <<filter_arg, filter_substring, graph, visited, cycles,
                root_package, stack, pc, nbuilds, prev, entered, fresh>>
orderVars  == <<lo_root, in_degree, queue, processed, result, lo_done,
                norders, prev_order>>
configVars == <<config_file, config_outcome>>
vars == <<parserVars, depsVars, buildVars, orderVars, configVars>>

----------------------------------------------------------------------------
(* Bounds of the explored inputs *)

MaxDeps   == 2   \* names in one catalog dependency set
MaxBuilds == 2   \* build_graph_bfs calls on one DependencyGraph
MaxOrders == 2   \* get_load_order calls on one built graph
MaxLen    == 4   \* characters of an arbitrary dependency line
MaxAlts   == 3   \* alternatives of a well-formed dependency expression
MaxLines  == 5   \* lines of a metadata text

----------------------------------------------------------------------------
(* Python str operations *)

None == "None"

\* str.lower() on one character
LowerChar(c) ==
    CASE c = "A" -> "a"
      [] c = "B" -> "b"
      [] c = "C" -> "c"
      [] c = "L" -> "l"
      [] c = "P" -> "p"
      [] c = "D" -> "d"
      [] OTHER   -> c

\* str.lower()
Lower(s) == [i \in 1..Len(s) |-> LowerChar(s[i])]

\* sub in s
Contains(sub, s) ==
    \E i \in 1..(Len(s) - Len(sub) + 1) : SubSeq(s, i, i + Len(sub) - 1) = sub

\* str.isspace() on one character
IsSpace(c) == c \in {" ", "\t", "\n"}

\* the class \w of re on one character: of the characters used here, the
\* letters and digits, that is all but the white space and the punctuation
IsWord(c) == c \notin {" ", "\t", "\n", ":", "(", ")", ",", "|", "-", ">", "=", "."}

RECURSIVE LStrip(_)
\* str.lstrip()
LStrip(s) == IF s # <<>> /\ IsSpace(Head(s)) THEN LStrip(Tail(s)) ELSE s

RECURSIVE RStrip(_)
\* str.rstrip()
RStrip(s) ==
    IF s # <<>> /\ IsSpace(s[Len(s)]) THEN RStrip(SubSeq(s, 1, Len(s) - 1)) ELSE s

\* str.strip()
Strip(s) == RStrip(LStrip(s))

\* s.startswith(p)
StartsWith(s, p) == Len(s) >= Len(p) /\ SubSeq(s, 1, Len(p)) = p

\* first index >= i of s at which sep starts, 0 when there is none
RECURSIVE FindFrom(_, _, _)
FindFrom(s, sep, i) ==
    IF i + Len(sep) - 1 > Len(s) THEN 0
    ELSE IF SubSeq(s, i, i + Len(sep) - 1) = sep THEN i
    ELSE FindFrom(s, sep, i + 1)

\* s.split(sep): the list of pieces, cut left to right at each sep
RECURSIVE Split(_, _)
Split(s, sep) ==
    LET k == FindFrom(s, sep, 1)
    IN  IF k = 0 THEN <<s>>
        ELSE <<SubSeq(s, 1, k - 1)>> \o Split(SubSeq(s, k + Len(sep), Len(s)), sep)

\* s.split(sep, 1)
Split1(s, sep) ==
    LET k == FindFrom(s, sep, 1)
    IN  IF k = 0 THEN <<s>>
        ELSE <<SubSeq(s, 1, k - 1), SubSeq(s, k + Len(sep), Len(s))>>

\* s.split(): the whitespace-delimited tokens, none of them empty
RECURSIVE SplitWs(_)
SplitWs(s) ==
    LET t == LStrip(s)
        RECURSIVE TokenEnd(_)
        TokenEnd(i) == IF i <= Len(t) /\ ~IsSpace(t[i]) THEN TokenEnd(i + 1) ELSE i
    IN  IF t = <<>> THEN <<>>
        ELSE LET e == TokenEnd(1)
             IN  <<SubSeq(t, 1, e - 1)>> \o SplitWs(SubSeq(t, e, Len(t)))

\* all orders in which the members of a set can be visited
Orders(S) ==
    {f \in [1..Cardinality(S) -> S] : \A i, j \in 1..Cardinality(S) : f[i] = f[j] => i = j}

\* list.index(x)
Index(seq, x) == CHOOSE i \in 1..Len(seq) : seq[i] = x /\ \A j \in 1..(i - 1) : seq[j] # x

\* x in list
InSeq(x, seq) == \E i \in 1..Len(seq) : seq[i] = x

----------------------------------------------------------------------------
(* The explored package names and filters *)

nA    == <<"A">>
nLibB == <<"L", "i", "b", "B">>
nC    == <<"C">>
Names == {nA, nLibB, nC}

Filters == {<<>>, <<"L", "i", "b">>}

SmallSets == {S \in SUBSET Names : Cardinality(S) <= MaxDeps}

\* dict with key k set to v
Put(f, k, v) == [x \in (DOMAIN f) \cup {k} |-> IF x = k THEN v ELSE f[x]]

EmptyDict == <<>>

\* load_config was not called and no file is looked at
NoConfig ==
    /\ config_file = [state |-> "missing", top |-> "object",
                      fields |-> EmptyDict, members |-> {}]
    /\ config_outcome = [raised |-> "NotCalled", rule |-> "none",
                         config |-> EmptyDict]

----------------------------------------------------------------------------
(* PackageParser: catalog lookups *)

PackageNotFoundError == "PackageNotFoundError"

\* PackageParser.get_package_dependencies: the exception it raises, or None
\* and the set it returns
get_package_dependencies(package_name) ==
    IF package_name \notin DOMAIN packages
    THEN [raised |-> PackageNotFoundError, value |-> {}]
    ELSE [raised |-> None,
          value  |-> packages[package_name].dependencies
                        \cup packages[package_name].pre_dependencies]

\* PackageParser.package_exists
package_exists(package_name) == package_name \in DOMAIN packages

\* no direct get_package_dependencies call was made yet
NoLookup == [name |-> <<>>, raised |-> "NotCalled", value |-> {}]

\* A caller invokes get_package_dependencies(name) on the catalog directly
GetPackageDependencies(name) ==
    /\ pc = "idle"
    /\ lookup = NoLookup
    /\ lookup' = [name   |-> name,
                  raised |-> get_package_dependencies(name).raised,
                  value  |-> get_package_dependencies(name).value]
    /\ UNCHANGED <<packages_content, packages, parser_pc, depsVars, buildVars,
                   orderVars, configVars>>

----------------------------------------------------------------------------
(* PackageParser._parse_dependencies_line *)

IndexError == "IndexError"

RECURSIVE SkipWord(_, _)
\* first index >= i of s that does not hold a \w character
SkipWord(s, i) == IF i <= Len(s) /\ IsWord(s[i]) THEN SkipWord(s, i + 1) ELSE i

RECURSIVE SkipSpace(_, _)
\* first index >= i of s that does not hold a \s character
SkipSpace(s, i) == IF i <= Len(s) /\ IsSpace(s[i]) THEN SkipSpace(s, i + 1) ELSE i

\* re.sub that leaves the architecture qualifiers in place
SubArch_Keep(s) == s

RECURSIVE SubArch(_)
\* re.sub(r':\w+\s*', ' ', s)
SubArch(s) ==
    IF s = <<>> THEN <<>>
    ELSE IF s[1] = ":" /\ Len(s) >= 2 /\ IsWord(s[2])
         THEN <<" ">> \o SubArch(SubSeq(s, SkipSpace(s, SkipWord(s, 2)), Len(s)))
         ELSE <<s[1]>> \o SubArch(Tail(s))

RECURSIVE SubVersion(_)
\* re.sub(r'\s*\([^)]+\)\s*', '', s)
SubVersion(s) ==
    IF s = <<>> THEN <<>>
    ELSE LET j == SkipSpace(s, 1)
             k == IF j <= Len(s) /\ s[j] = "(" THEN FindFrom(s, <<")">>, j + 1) ELSE 0
         IN  IF k >= j + 2
             THEN SubVersion(SubSeq(s, SkipSpace(s, k + 1), Len(s)))
             ELSE <<s[1]>> \o SubVersion(Tail(s))

\* [x.strip() for x in s.split(sep)]
StrippedPieces(s, sep) == [i \in 1..Len(Split(s, sep)) |-> Strip(Split(s, sep)[i])]

\* the alternatives the two loops of _parse_dependencies_line visit, each
\* after the removal of its version constraints and cut into tokens
AlternativeTokens(line) ==
    LET dep_items == StrippedPieces(SubArch(line), <<",">>)
    IN  UNION {{SplitWs(SubVersion(StrippedPieces(dep_items[i], <<"|">>)[k])) :
                  k \in 1..Len(StrippedPieces(dep_items[i], <<"|">>))} :
               i \in {n \in 1..Len(dep_items) : dep_items[n] # <<>>}}

\* PackageParser._parse_dependencies_line: the exception it raises, or None
\* and the set it returns.  alt.split()[0] raises IndexError when an
\* alternative has no token.
parse_dependencies_line(line) ==
    IF line = <<>> THEN [raised |-> None, value |-> {}]
    ELSE IF <<>> \in AlternativeTokens(line)
         THEN [raised |-> IndexError, value |-> {}]
         ELSE [raised |-> None,
               value  |-> {Strip(toks[1]) : toks \in AlternativeTokens(line)} \ {<<>>}]

\* the call _parse_dependencies_line(deps_line)
ParseDependenciesLine ==
    /\ deps_result.raised = "NotCalled"
    /\ deps_result' = parse_dependencies_line(deps_line)
    /\ UNCHANGED <<deps_line, expr, parserVars, buildVars, orderVars, configVars>>

----------------------------------------------------------------------------
(* PackageParser._parse_packages *)

PackageField    == <<"P", "a", "c", "k", "a", "g", "e", ":">>
DependsField    == <<"D", "e", "p", "e", "n", "d", "s", ":">>
PreDependsField == <<"P", "r", "e", "-", "D", "e", "p", "e", "n", "d", "s", ":">>

\* the record a Package: field creates
NewRecord == [dependencies |-> {}, pre_dependencies |-> {}]

\* The locals of _parse_packages at the start of a block: package_name,
\* current_field and current_value are None, written <<>> for the two that
\* are only tested for truth and flagged by has_field for current_field
BlockStart(pkgs, raised) ==
    [packages |-> pkgs, raised |-> raised, package_name |-> <<>>,
     has_field |-> FALSE, current_field |-> <<>>, current_value |-> <<>>]

\* the Package: branch writing a fresh record over an existing one
SaveField_Overwrite(st) ==
    IF st.raised # None \/ ~st.has_field \/ st.current_value = <<>> THEN st
    ELSE IF st.current_field = PackageField THEN
        LET name == Strip(st.current_value)
        IN  [st EXCEPT !.package_name = name,
                       !.packages = IF name # <<>>
                                    THEN Put(st.packages, name, NewRecord)
                                    ELSE st.packages]
    ELSE IF st.current_field = DependsField /\ st.package_name # <<>> THEN
        LET parsed == parse_dependencies_line(Strip(st.current_value))
        IN  IF parsed.raised # None THEN [st EXCEPT !.raised = parsed.raised]
            ELSE [st EXCEPT !.packages[st.package_name].dependencies = @ \cup parsed.value]
    ELSE IF st.current_field = PreDependsField /\ st.package_name # <<>> THEN
        LET parsed == parse_dependencies_line(Strip(st.current_value))
        IN  IF parsed.raised # None THEN [st EXCEPT !.raised = parsed.raised]
            ELSE [st EXCEPT !.packages[st.package_name].pre_dependencies = @ \cup parsed.value]
    ELSE st

\* The if/elif/elif that saves the field just ended (written twice in
\* _parse_packages: before a new field starts and after the last line)
SaveField(st) ==
    IF st.raised # None \/ ~st.has_field \/ st.current_value = <<>> THEN st
    ELSE IF st.current_field = PackageField THEN
        LET name == Strip(st.current_value)
        IN  [st EXCEPT !.package_name = name,
                       !.packages = IF name # <<>> /\ name \notin DOMAIN st.packages
                                    THEN Put(st.packages, name, NewRecord)
                                    ELSE st.packages]
    ELSE IF st.current_field = DependsField /\ st.package_name # <<>> THEN
        LET parsed == parse_dependencies_line(Strip(st.current_value))
        IN  IF parsed.raised # None THEN [st EXCEPT !.raised = parsed.raised]
            ELSE [st EXCEPT !.packages[st.package_name].dependencies = @ \cup parsed.value]
    ELSE IF st.current_field = PreDependsField /\ st.package_name # <<>> THEN
        LET parsed == parse_dependencies_line(Strip(st.current_value))
        IN  IF parsed.raised # None THEN [st EXCEPT !.raised = parsed.raised]
            ELSE [st EXCEPT !.packages[st.package_name].pre_dependencies = @ \cup parsed.value]
    ELSE st

\* the body of `for line in lines`
ParseLine(st, line) ==
    IF st.raised # None THEN st
    ELSE IF StartsWith(line, <<" ">>) \/ StartsWith(line, <<"\t">>) THEN
        IF st.has_field
        THEN [st EXCEPT !.current_value = @ \o <<" ">> \o Strip(line)]
        ELSE st
    ELSE IF Contains(<<":">>, line) THEN
        LET saved == SaveField(st)
            field_parts == Split1(line, <<":">>)
        IN  IF saved.raised # None THEN saved
            ELSE [saved EXCEPT !.has_field = TRUE,
                               !.current_field = field_parts[1] \o <<":">>,
                               !.current_value = Strip(field_parts[2])]
    ELSE st

RECURSIVE ParseLines(_, _)
\* `for line in lines`
ParseLines(st, lines) ==
    IF lines = <<>> THEN st ELSE ParseLines(ParseLine(st, Head(lines)), Tail(lines))

\* the body of `for block in package_blocks`
ParseBlock(st, block) ==
    IF st.raised # None \/ Strip(block) = <<>> THEN st
    ELSE SaveField(ParseLines(BlockStart(st.packages, st.raised), Split(block, <<"\n">>)))

RECURSIVE ParseBlocks(_, _)
\* `for block in package_blocks`
ParseBlocks(st, blocks) ==
    IF blocks = <<>> THEN st ELSE ParseBlocks(ParseBlock(st, Head(blocks)), Tail(blocks))

\* PackageParser._parse_packages on a text: the exception it raises, or None
\* and the catalog it leaves in self.packages
parse_packages(content) ==
    LET st == ParseBlocks(BlockStart(EmptyDict, None), Split(content, <<"\n", "\n">>))
    IN  [raised |-> st.raised, packages |-> st.packages]

\* PackageParser.__init__(packages_content)
NewPackageParser ==
    /\ parser_pc = "new"
    /\ \E r \in {parse_packages(packages_content)} :
           /\ packages' = r.packages
           /\ parser_pc' = IF r.raised = None THEN "ready" ELSE r.raised
    /\ UNCHANGED <<packages_content, lookup, depsVars, buildVars, orderVars,
                   configVars>>

----------------------------------------------------------------------------
(* DependencyGraph: the graph builder *)

\* DependencyGraph.__init__: the stored filter
InitFilter(arg) == IF arg # <<>> THEN Lower(arg) ELSE <<>>

\* _should_filter_package comparing the name as written, without lower()
should_filter_package_CaseSensitive(package_name) ==
    IF filter_substring = <<>> THEN FALSE
    ELSE Contains(filter_substring, package_name)

\* DependencyGraph._should_filter_package
should_filter_package(package_name) ==
    IF filter_substring = <<>> THEN FALSE
    ELSE Contains(filter_substring, Lower(package_name))

\* filtered_deps that also drops the dependencies already in self.visited
filtered_deps_Unvisited(direct_deps) ==
    {dep \in direct_deps : ~should_filter_package(dep) /\ dep \notin visited}

\* the comprehension building filtered_deps in _bfs_with_recursion
filtered_deps(direct_deps) == {dep \in direct_deps : ~should_filter_package(dep)}

\* the values list(path) can take in a call _bfs_with_recursion(package,
\* path): it is computed in the cycle branch only
cycle_paths(package, path) == IF package \in path THEN Orders(path) ELSE {<<>>}

\* the cycle branch of _bfs_with_recursion: cycle_path is list(path)
CycleOf(package, cycle_path) ==
    LET cycle_start == Index(cycle_path, package)
        cycle == SubSeq(cycle_path, cycle_start, Len(cycle_path)) \o <<package>>
    IN  IF Len(cycle) > 1 /\ cycle[1] = cycle[Len(cycle)]
        THEN SubSeq(cycle, 1, Len(cycle) - 1) \o <<cycle[1]>>
        ELSE cycle

\* _bfs_with_recursion without its `except PackageNotFoundError` clause: the
\* error of the lookup leaves the call
bfs_with_recursion_NoHandler(package, path, cycle_path, g, cyc, stk) ==
    IF package \in path THEN
        LET cycle == CycleOf(package, cycle_path)
        IN  [graph  |-> g,
             cycles |-> IF ~InSeq(cycle, cyc) THEN Append(cyc, cycle) ELSE cyc,
             stack  |-> stk,
             raised |-> None]
    ELSE IF should_filter_package(package) THEN
        [graph |-> g, cycles |-> cyc, stack |-> stk, raised |-> None]
    ELSE IF get_package_dependencies(package).raised = PackageNotFoundError THEN
        [graph |-> g, cycles |-> cyc, stack |-> stk,
         raised |-> PackageNotFoundError]
    ELSE
        LET deps == filtered_deps(get_package_dependencies(package).value)
            old  == IF package \in DOMAIN g THEN g[package] ELSE {}
        IN  [graph  |-> Put(g, package, old \cup deps),
             cycles |-> cyc,
             stack  |-> <<[package |-> package,
                           new_path |-> path \cup {package},
                           todo |-> deps]>> \o stk,
             raised |-> None]

\* One call of _bfs_with_recursion(package, path) up to its loop: the graph,
\* cycle list and activation stack it leaves, and the exception that leaves
\* it (None: the handler of PackageNotFoundError returns normally).
\* cycle_path is the order in which list(path) enumerates path.
bfs_with_recursion(package, path, cycle_path, g, cyc, stk) ==
    IF package \in path THEN
        LET cycle == CycleOf(package, cycle_path)
        IN  [graph  |-> g,
             cycles |-> IF ~InSeq(cycle, cyc) THEN Append(cyc, cycle) ELSE cyc,
             stack  |-> stk,
             raised |-> None]
    ELSE IF should_filter_package(package) THEN
        [graph |-> g, cycles |-> cyc, stack |-> stk, raised |-> None]
    ELSE IF get_package_dependencies(package).raised = PackageNotFoundError THEN
        [graph |-> g, cycles |-> cyc, stack |-> stk, raised |-> None]
    ELSE
        LET deps == filtered_deps(get_package_dependencies(package).value)
            old  == IF package \in DOMAIN g THEN g[package] ELSE {}
        IN  [graph  |-> Put(g, package, old \cup deps),
             cycles |-> cyc,
             stack  |-> <<[package |-> package,
                           new_path |-> path \cup {package},
                           todo |-> deps]>> \o stk,
             raised |-> None]

\* no package was entered
NoEntries == [n \in Names |-> 0]

\* DependencyGraph.__init__: the graph, visited and cycles of a new instance,
\* on which no call is running
NewGraph == [graph |-> EmptyDict, visited |-> {}, cycles |-> <<>>, stack |-> <<>>]

\* build_graph_bfs(root) on a new instance, up to the loop of the first
\* _bfs_with_recursion call
FreshStart(root) ==
    IF should_filter_package(root)
    THEN [graph |-> EmptyDict, visited |-> {}, cycles |-> <<>>, stack |-> <<>>]
    ELSE LET r == bfs_with_recursion(root, {}, <<>>,
                                     Put(EmptyDict, root, {}), <<>>, <<>>)
         IN  [graph |-> r.graph, visited |-> {}, cycles |-> r.cycles,
              stack |-> r.stack]

\* the loop iteration for dep of the innermost activation of the instance
\* st, list(path) being cycle_path; st itself when its loop has no such
\* iteration to take
FreshVisitDep(st, dep, cycle_path) ==
    IF st.stack = <<>> THEN st
    ELSE IF dep \notin Head(st.stack).todo THEN st
    ELSE LET top  == Head(st.stack)
             rest == <<[top EXCEPT !.todo = top.todo \ {dep}]>> \o Tail(st.stack)
         IN  IF dep \notin st.visited
             THEN LET r == bfs_with_recursion(dep, top.new_path, cycle_path,
                                              st.graph, st.cycles, rest)
                  IN  [graph   |-> r.graph,
                       visited |-> st.visited \cup {dep},
                       cycles  |-> r.cycles,
                       stack   |-> r.stack]
             ELSE [st EXCEPT !.stack = rest]

\* the return of the innermost activation of the instance st; st itself when
\* its loop is not exhausted
FreshReturn(st) ==
    IF st.stack # <<>> /\ Head(st.stack).todo = {}
    THEN [st EXCEPT !.stack = Tail(st.stack)]
    ELSE st

\* build_graph_bfs(root) without the statement `self.visited = set()`
BuildGraphBfs_KeepVisited(root) ==
    /\ pc = "idle"
    /\ nbuilds < MaxBuilds
    /\ nbuilds' = nbuilds + 1
    /\ root_package' = root
    /\ prev' = [root |-> root_package, graph |-> graph, cycles |-> cycles]
    /\ visited' = visited
    /\ IF should_filter_package(root)
       THEN /\ graph' = EmptyDict
            /\ cycles' = <<>>
            /\ stack' = <<>>
            /\ pc' = "idle"
            /\ entered' = NoEntries
       ELSE \E r \in {bfs_with_recursion(root, {}, <<>>,
                                        Put(EmptyDict, root, {}), <<>>, <<>>)} :
                /\ graph' = r.graph
                /\ cycles' = r.cycles
                /\ entered' = [NoEntries EXCEPT ![root] = 1]
                /\ stack' = IF r.raised # None THEN <<>> ELSE r.stack
                /\ pc' = IF r.raised # None THEN r.raised
                         ELSE IF r.stack = <<>> THEN "idle" ELSE "build"
    /\ norders' = 0
    /\ lo_done' = FALSE
    /\ result' = <<>>
    /\ prev_order' = [root |-> <<>>, result |-> <<>>]
    /\ lookup' = NoLookup
    /\ fresh' = FreshStart(root)
    /\ UNCHANGED <<filter_arg, filter_substring, lo_root, in_degree, queue,
                   processed, packages_content, packages, parser_pc, depsVars,
                   configVars>>

\* DependencyGraph.build_graph_bfs(root): the resets, the root entry and the
\* first call of _bfs_with_recursion
BuildGraphBfs(root) ==
    /\ pc = "idle"
    /\ nbuilds < MaxBuilds
    /\ nbuilds' = nbuilds + 1
    /\ root_package' = root
    /\ prev' = [root |-> root_package, graph |-> graph, cycles |-> cycles]
    /\ visited' = {}
    /\ IF should_filter_package(root)
       THEN /\ graph' = EmptyDict
            /\ cycles' = <<>>
            /\ stack' = <<>>
            /\ pc' = "idle"
            /\ entered' = NoEntries
       ELSE \E r \in {bfs_with_recursion(root, {}, <<>>,
                                        Put(EmptyDict, root, {}), <<>>, <<>>)} :
                /\ graph' = r.graph
                /\ cycles' = r.cycles
                /\ entered' = [NoEntries EXCEPT ![root] = 1]
                /\ stack' = IF r.raised # None THEN <<>> ELSE r.stack
                /\ pc' = IF r.raised # None THEN r.raised
                         ELSE IF r.stack = <<>> THEN "idle" ELSE "build"
    /\ norders' = 0
    /\ lo_done' = FALSE
    /\ result' = <<>>
    /\ prev_order' = [root |-> <<>>, result |-> <<>>]
    /\ lookup' = NoLookup
    /\ fresh' = FreshStart(root)
    /\ UNCHANGED <<filter_arg, filter_substring, lo_root, in_degree, queue,
                   processed, packages_content, packages, parser_pc, depsVars,
                   configVars>>

\* One iteration of the loop without the test `if dep not in self.visited`:
\* every dependency is entered
BfsVisitDep_NoVisitedTest ==
    /\ pc = "build"
    /\ stack # <<>>
    /\ Head(stack).todo # {}
    /\ \E dep \in Head(stack).todo :
         LET top  == Head(stack)
             rest == <<[top EXCEPT !.todo = top.todo \ {dep}]>> \o Tail(stack)
         IN  \E cycle_path \in cycle_paths(dep, top.new_path) :
               \E r \in {bfs_with_recursion(dep, top.new_path, cycle_path,
                                           graph, cycles, rest)} :
                   /\ visited' = visited \cup {dep}
                   /\ entered' = [entered EXCEPT ![dep] = @ + 1]
                   /\ graph' = r.graph
                   /\ cycles' = r.cycles
                   /\ stack' = IF r.raised # None THEN <<>> ELSE r.stack
                   /\ pc' = IF r.raised # None THEN r.raised ELSE pc
                   /\ fresh' = FreshVisitDep(fresh, dep, cycle_path)
    /\ UNCHANGED <<filter_arg, filter_substring, root_package, nbuilds, prev,
                   orderVars, parserVars, depsVars, configVars>>

\* One iteration of the loop without the statement `self.visited.add(dep)`
BfsVisitDep_NoVisitedAdd ==
    /\ pc = "build"
    /\ stack # <<>>
    /\ Head(stack).todo # {}
    /\ \E dep \in Head(stack).todo :
         LET top  == Head(stack)
             rest == <<[top EXCEPT !.todo = top.todo \ {dep}]>> \o Tail(stack)
         IN  IF dep \notin visited
             THEN \E cycle_path \in cycle_paths(dep, top.new_path) :
                    \E r \in {bfs_with_recursion(dep, top.new_path, cycle_path,
                                                graph, cycles, rest)} :
                        /\ visited' = visited
                        /\ entered' = [entered EXCEPT ![dep] = @ + 1]
                        /\ graph' = r.graph
                        /\ cycles' = r.cycles
                        /\ stack' = IF r.raised # None THEN <<>> ELSE r.stack
                        /\ pc' = IF r.raised # None THEN r.raised ELSE pc
                        /\ fresh' = FreshVisitDep(fresh, dep, cycle_path)
             ELSE /\ stack' = rest
                  /\ \E cycle_path \in IF dep \in fresh.visited THEN {<<>>}
                                        ELSE cycle_paths(dep, top.new_path) :
                       fresh' = FreshVisitDep(fresh, dep, cycle_path)
                  /\ UNCHANGED <<visited, graph, cycles, entered, pc>>
    /\ UNCHANGED <<filter_arg, filter_substring, root_package, nbuilds, prev,
                   orderVars, parserVars, depsVars, configVars>>

\* One iteration of the loop `for dep in filtered_deps` of the innermost
\* activation, with the recursive call it makes up to that call's loop
BfsVisitDep ==
    /\ pc = "build"
    /\ stack # <<>>
    /\ Head(stack).todo # {}
    /\ \E dep \in Head(stack).todo :
         LET top  == Head(stack)
             rest == <<[top EXCEPT !.todo = top.todo \ {dep}]>> \o Tail(stack)
         IN  IF dep \notin visited
             THEN \E cycle_path \in cycle_paths(dep, top.new_path) :
                    \E r \in {bfs_with_recursion(dep, top.new_path, cycle_path,
                                                graph, cycles, rest)} :
                        /\ visited' = visited \cup {dep}
                        /\ entered' = [entered EXCEPT ![dep] = @ + 1]
                        /\ graph' = r.graph
                        /\ cycles' = r.cycles
                        /\ stack' = IF r.raised # None THEN <<>> ELSE r.stack
                        /\ pc' = IF r.raised # None THEN r.raised ELSE pc
                        /\ fresh' = FreshVisitDep(fresh, dep, cycle_path)
             ELSE /\ stack' = rest
                  /\ \E cycle_path \in IF dep \in fresh.visited THEN {<<>>}
                                        ELSE cycle_paths(dep, top.new_path) :
                       fresh' = FreshVisitDep(fresh, dep, cycle_path)
                  /\ UNCHANGED <<visited, graph, cycles, entered, pc>>
    /\ UNCHANGED <<filter_arg, filter_substring, root_package, nbuilds, prev,
                   orderVars, parserVars, depsVars, configVars>>

\* The loop of the innermost activation is exhausted: the call returns
BfsReturn ==
    /\ pc = "build"
    /\ stack # <<>>
    /\ Head(stack).todo = {}
    /\ stack' = Tail(stack)
    /\ pc' = IF Tail(stack) = <<>> THEN "idle" ELSE "build"
    /\ fresh' = FreshReturn(fresh)
    /\ UNCHANGED <<filter_arg, filter_substring, graph, visited, cycles,
                   root_package, nbuilds, prev, entered, orderVars, parserVars,
                   depsVars, configVars>>

\* DependencyGraph.get_all_packages
get_all_packages(g) == (DOMAIN g) \cup UNION {g[p] : p \in DOMAIN g}

RECURSIVE SumOutDegree(_, _)
\* sum(len(deps) for deps in self.graph.values())
SumOutDegree(g, keys) ==
    IF keys = {} THEN 0
    ELSE LET k == CHOOSE x \in keys : TRUE
         IN  Cardinality(g[k]) + SumOutDegree(g, keys \ {k})

\* DependencyGraph.get_statistics
get_statistics(g, cyc) ==
    [total_packages |-> Cardinality(get_all_packages(g)),
     total_edges    |-> SumOutDegree(g, DOMAIN g),
     cycles_found   |-> Len(cyc),
     cycles         |-> cyc]

----------------------------------------------------------------------------
(* DependencyGraph.get_load_order *)

\* reverse_graph[dep]: the packages whose dependency set holds dep
reverse_graph(g, dep) == {pkg \in DOMAIN g : dep \in g[pkg]}

\* in_degree counting, for each package, the packages that depend on it
InitialInDegree_Dependents(g) ==
    [pkg \in get_all_packages(g) |-> Cardinality(reverse_graph(g, pkg))]

\* in_degree after the loop over self.graph.items()
InitialInDegree(g) ==
    [pkg \in get_all_packages(g) |->
        IF pkg \in DOMAIN g THEN Cardinality(g[pkg]) ELSE 0]

\* list.remove(x): drop the first occurrence
Remove(seq, x) ==
    LET i == Index(seq, x)
    IN  SubSeq(seq, 1, i - 1) \o SubSeq(seq, i + 1, Len(seq))

\* get_load_order(name) without its guard `root_package not in self.graph`:
\* the tables are built and the queue is seeded for every name
GetLoadOrder_NoGuard(name) ==
    /\ pc = "idle"
    /\ norders < MaxOrders
    /\ norders' = norders + 1
    /\ lo_root' = name
    /\ prev_order' = [root |-> lo_root, result |-> result]
    /\ processed' = {}
    /\ result' = <<>>
    /\ lo_done' = FALSE
    /\ pc' = "order"
    /\ in_degree' = InitialInDegree(graph)
    /\ \E seed \in Orders({pkg \in get_all_packages(graph) :
                             InitialInDegree(graph)[pkg] = 0}) :
         queue' = seed
    /\ UNCHANGED <<filter_arg, filter_substring, graph, visited, cycles,
                   root_package, stack, nbuilds, prev, entered, fresh,
                   parserVars,
                   depsVars, configVars>>

\* get_load_order(name) up to its while loop: the guard, the tables and the
\* seeding of the queue in the order all_packages is enumerated
GetLoadOrder(name) ==
    /\ pc = "idle"
    /\ norders < MaxOrders
    /\ norders' = norders + 1
    /\ lo_root' = name
    /\ prev_order' = [root |-> lo_root, result |-> result]
    /\ processed' = {}
    /\ result' = <<>>
    /\ IF name \notin DOMAIN graph
       THEN /\ lo_done' = TRUE
            /\ pc' = "idle"
            /\ in_degree' = EmptyDict
            /\ queue' = <<>>
       ELSE /\ lo_done' = FALSE
            /\ pc' = "order"
            /\ in_degree' = InitialInDegree(graph)
            /\ \E seed \in Orders({pkg \in get_all_packages(graph) :
                                     InitialInDegree(graph)[pkg] = 0}) :
                 queue' = seed
    /\ UNCHANGED <<filter_arg, filter_substring, graph, visited, cycles,
                   root_package, stack, nbuilds, prev, entered, fresh,
                   parserVars,
                   depsVars, configVars>>

\* One iteration of `while queue` that enqueues every dependent it lowers,
\* whether or not its in_degree reached zero
LoadOrderStep_NoZeroTest ==
    /\ pc = "order"
    /\ queue # <<>>
    /\ LET current == Head(queue)
       IN  IF current \in processed
           THEN /\ queue' = Tail(queue)
                /\ UNCHANGED <<processed, result, in_degree>>
           ELSE LET dependents == reverse_graph(graph, current) \ (processed \cup {current})
                    lowered == [pkg \in DOMAIN in_degree |->
                                  IF pkg \in dependents THEN in_degree[pkg] - 1
                                  ELSE in_degree[pkg]]
                IN  /\ processed' = processed \cup {current}
                    /\ result' = Append(result, current)
                    /\ in_degree' = lowered
                    /\ \E ready \in Orders(dependents) :
                         queue' = Tail(queue) \o ready
    /\ UNCHANGED <<lo_root, lo_done, norders, prev_order, pc, buildVars,
                   parserVars, depsVars, configVars>>

\* One iteration of `while queue`
LoadOrderStep ==
    /\ pc = "order"
    /\ queue # <<>>
    /\ LET current == Head(queue)
       IN  IF current \in processed
           THEN /\ queue' = Tail(queue)
                /\ UNCHANGED <<processed, result, in_degree>>
           ELSE LET dependents == reverse_graph(graph, current) \ (processed \cup {current})
                    lowered == [pkg \in DOMAIN in_degree |->
                                  IF pkg \in dependents THEN in_degree[pkg] - 1
                                  ELSE in_degree[pkg]]
                IN  /\ processed' = processed \cup {current}
                    /\ result' = Append(result, current)
                    /\ in_degree' = lowered
                    /\ \E ready \in Orders({pkg \in dependents : lowered[pkg] = 0}) :
                         queue' = Tail(queue) \o ready
    /\ UNCHANGED <<lo_root, lo_done, norders, prev_order, pc, buildVars,
                   parserVars, depsVars, configVars>>

\* The final block without its test `root_package not in result`: the root is
\* appended whether or not the list holds it
LoadOrderReturn_AlwaysAppend ==
    /\ pc = "order"
    /\ queue = <<>>
    /\ result' = Append(result, lo_root)
    /\ lo_done' = TRUE
    /\ pc' = "idle"
    /\ UNCHANGED <<lo_root, in_degree, queue, processed, norders, prev_order,
                   filter_arg, filter_substring, graph, visited, cycles,
                   root_package, stack, nbuilds, prev, entered, fresh,
                   parserVars,
                   depsVars, configVars>>

\* The queue is empty: the root is put last and the list is returned
LoadOrderReturn ==
    /\ pc = "order"
    /\ queue = <<>>
    /\ result' = IF ~InSeq(lo_root, result)
                 THEN Append(result, lo_root)
                 ELSE Append(Remove(result, lo_root), lo_root)
    /\ lo_done' = TRUE
    /\ pc' = "idle"
    /\ UNCHANGED <<lo_root, in_degree, queue, processed, norders, prev_order,
                   filter_arg, filter_substring, graph, visited, cycles,
                   root_package, stack, nbuilds, prev, entered, fresh,
                   parserVars,
                   depsVars, configVars>>

----------------------------------------------------------------------------
(* Specification of the graph builder and the load order planner *)

\* the catalogs handed to DependencyGraph: any set of declared names, each
\* with at most MaxDeps dependency names; the names of pre are declared in
\* Pre-Depends, the others in Depends
Catalogs ==
    UNION {{[p \in K |-> [dependencies     |-> U[p] \ pre,
                          pre_dependencies |-> U[p] \cap pre]] :
              U \in [K -> SmallSets], pre \in {{}, {nC}}} : K \in SUBSET Names}

Init ==
    /\ packages \in Catalogs
    /\ packages_content = <<>>
    /\ parser_pc = "ready"
    /\ deps_line = <<>>
    /\ expr = <<>>
    /\ deps_result = [raised |-> "NotCalled", value |-> {}]
    /\ filter_arg \in Filters
    /\ filter_substring = InitFilter(filter_arg)
    /\ graph = EmptyDict
    /\ visited = {}
    /\ cycles = <<>>
    /\ root_package = <<>>
    /\ stack = <<>>
    /\ pc = "idle"
    /\ nbuilds = 0
    /\ prev = [root |-> <<>>, graph |-> EmptyDict, cycles |-> <<>>]
    /\ lo_root = <<>>
    /\ in_degree = EmptyDict
    /\ queue = <<>>
    /\ processed = {}
    /\ result = <<>>
    /\ lo_done = FALSE
    /\ norders = 0
    /\ prev_order = [root |-> <<>>, result |-> <<>>]
    /\ entered = NoEntries
    /\ fresh = NewGraph
    /\ lookup = NoLookup
    /\ NoConfig

\* build_graph_bfs called up to MaxBuilds times on one DependencyGraph
Next ==
    \/ \E root \in Names : BuildGraphBfs(root)
    \/ BfsVisitDep
    \/ BfsReturn

Spec == Init /\ [][Next]_vars

\* the first build_graph_bfs call on a DependencyGraph
FirstBuild(root) == nbuilds = 0 /\ BuildGraphBfs(root)

\* one build, with direct catalog lookups before and after it
NextLookup ==
    \/ \E name \in Names : GetPackageDependencies(name)
    \/ \E root \in Names : FirstBuild(root)
    \/ BfsVisitDep
    \/ BfsReturn

SpecLookup == Init /\ [][NextLookup]_vars

\* one build, then get_load_order called up to MaxOrders times on its graph
NextOrder ==
    \/ \E root \in Names : FirstBuild(root)
    \/ BfsVisitDep
    \/ BfsReturn
    \/ \E name \in Names : GetLoadOrder(name)
    \/ LoadOrderStep
    \/ LoadOrderReturn

SpecOrder == Init /\ [][NextOrder]_vars

----------------------------------------------------------------------------
(* Specification of _parse_dependencies_line on its own *)

\* characters of the arbitrary dependency lines
LineChars == {"a", ":", "(", ")", ",", "|", " "}

\* all strings of at most n characters of LineChars
StringsUpTo(n) == UNION {[1..k -> LineChars] : k \in 0..n}

\* A well-formed dependency expression: alternatives, each a package name
\* with an optional architecture qualifier and an optional version
\* constraint, each but the first preceded by a separator
PkgNames    == {<<"a">>, <<"a", "-", "b">>}
Qualifiers  == {<<>>, <<"a", "n", "y">>}
Constraints == {<<>>, <<"=", " ", "1", ":", "1", ".", "0">>}
Separators  == {<<",">>, <<",", " ">>, <<" ", "|", " ">>}
Alternatives == [name : PkgNames, arch : Qualifiers, ver : Constraints, sep : Separators]

WellFormed == UNION {[1..k -> Alternatives] : k \in 1..MaxAlts}

foo == <<"f", "o", "o">>
bar == <<"b", "a", "r">>
baz == <<"b", "a", "z">>

\* foo (>= 1.0) | bar:any, baz
Example3 ==
    << [name |-> foo, arch |-> <<>>, ver |-> <<">", "=", " ", "1", ".", "0">>, sep |-> <<",">>],
       [name |-> bar, arch |-> <<"a", "n", "y">>, ver |-> <<>>, sep |-> <<" ", "|", " ">>],
       [name |-> baz, arch |-> <<>>, ver |-> <<>>, sep |-> <<",", " ">>] >>

\* the text of one alternative: name[:arch][ (constraint)]
RenderAlt(a) ==
    a.name \o (IF a.arch = <<>> THEN <<>> ELSE <<":">> \o a.arch)
           \o (IF a.ver = <<>> THEN <<>> ELSE <<" ", "(">> \o a.ver \o <<")">>)

RECURSIVE Render(_)
\* the text of an expression: the alternatives, each but the first after its
\* separator ("," or ", " between items, " | " between alternatives)
Render(e) ==
    IF e = <<>> THEN <<>>
    ELSE IF Len(e) = 1 THEN RenderAlt(e[1])
    ELSE Render(SubSeq(e, 1, Len(e) - 1)) \o e[Len(e)].sep \o RenderAlt(e[Len(e)])

InitDeps ==
    /\ \/ /\ expr \in {e \in WellFormed : e[1].sep = <<",">>} \cup {Example3}
          /\ deps_line = Render(expr)
       \/ /\ expr = <<>>
          /\ deps_line \in StringsUpTo(MaxLen)
    /\ deps_result = [raised |-> "NotCalled", value |-> {}]
    /\ packages = EmptyDict
    /\ packages_content = <<>>
    /\ parser_pc = "ready"
    /\ filter_arg = <<>>
    /\ filter_substring = <<>>
    /\ graph = EmptyDict
    /\ visited = {}
    /\ cycles = <<>>
    /\ root_package = <<>>
    /\ stack = <<>>
    /\ pc = "idle"
    /\ nbuilds = 0
    /\ prev = [root |-> <<>>, graph |-> EmptyDict, cycles |-> <<>>]
    /\ lo_root = <<>>
    /\ in_degree = EmptyDict
    /\ queue = <<>>
    /\ processed = {}
    /\ result = <<>>
    /\ lo_done = FALSE
    /\ norders = 0
    /\ prev_order = [root |-> <<>>, result |-> <<>>]
    /\ entered = NoEntries
    /\ fresh = NewGraph
    /\ lookup = NoLookup
    /\ NoConfig

NextDeps == ParseDependenciesLine

SpecDeps == InitDeps /\ [][NextDeps]_vars

----------------------------------------------------------------------------
(* Specification of the metadata parser *)

\* the lines a metadata text is made of; the empty line ends a block
MetadataLines ==
    { <<>>,
      <<"P", "a", "c", "k", "a", "g", "e", ":", " ", "a">>,
      <<"P", "a", "c", "k", "a", "g", "e", ":", " ", "b">>,
      <<"D", "e", "p", "e", "n", "d", "s", ":", " ", "b">>,
      <<"D", "e", "p", "e", "n", "d", "s", ":", " ", "c", " ", "(", "=", " ", "1", ")", ",", " ", "a", " ", "|">>,
      <<"P", "r", "e", "-", "D", "e", "p", "e", "n", "d", "s", ":", " ", "c">>,
      <<" ", "e">> }

RECURSIVE JoinLines(_)
\* "\n".join(lines)
JoinLines(lines) ==
    IF lines = <<>> THEN <<>>
    ELSE IF Len(lines) = 1 THEN lines[1]
    ELSE lines[1] \o <<"\n">> \o JoinLines(Tail(lines))

InitParser ==
    /\ \E lines \in UNION {[1..k -> MetadataLines] : k \in 0..MaxLines} :
         packages_content = JoinLines(lines)
    /\ packages = EmptyDict
    /\ parser_pc = "new"
    /\ deps_line = <<>>
    /\ expr = <<>>
    /\ deps_result = [raised |-> "NotCalled", value |-> {}]
    /\ filter_arg = <<>>
    /\ filter_substring = <<>>
    /\ graph = EmptyDict
    /\ visited = {}
    /\ cycles = <<>>
    /\ root_package = <<>>
    /\ stack = <<>>
    /\ pc = "idle"
    /\ nbuilds = 0
    /\ prev = [root |-> <<>>, graph |-> EmptyDict, cycles |-> <<>>]
    /\ lo_root = <<>>
    /\ in_degree = EmptyDict
    /\ queue = <<>>
    /\ processed = {}
    /\ result = <<>>
    /\ lo_done = FALSE
    /\ norders = 0
    /\ prev_order = [root |-> <<>>, result |-> <<>>]
    /\ entered = NoEntries
    /\ fresh = NewGraph
    /\ lookup = NoLookup
    /\ NoConfig

NextParser == NewPackageParser

SpecParser == InitParser /\ [][NextParser]_vars

----------------------------------------------------------------------------
(* Vocabulary of the properties *)

\* f occurs in name when letter case is ignored
MatchesFilter(f, name) ==
    /\ f # <<>>
    /\ \E i \in 1..(Len(name) - Len(f) + 1) :
         \A j \in 1..Len(f) : LowerChar(name[i + j - 1]) = LowerChar(f[j])

\* a build_graph_bfs call has returned and none is running
Built == nbuilds > 0 /\ pc # "build"

\* get_load_order(root of the build) has returned its list
OrderedRoot == Built /\ pc = "idle" /\ lo_done /\ lo_root = root_package

Succ(g, n) == IF n \in DOMAIN g THEN g[n] ELSE {}

RECURSIVE ReachFrom(_, _)
\* the nodes reachable from S along edges of g, S included
ReachFrom(g, S) ==
    LET T == S \cup UNION {Succ(g, n) : n \in S}
    IN  IF T = S THEN S ELSE ReachFrom(g, T)

\* n lies on a cycle of g
OnCycle(g, n) == n \in ReachFrom(g, Succ(g, n))

Acyclic(g) == \A n \in get_all_packages(g) : ~OnCycle(g, n)

\* g without node r
Without(g, r) == [p \in (DOMAIN g) \ {r} |-> g[p] \ {r}]

\* the catalog says a depends on b
DependsOn(a, b) == a \in DOMAIN packages /\ b \in get_package_dependencies(a).value

Last(seq) == seq[Len(seq)]

----------------------------------------------------------------------------
(* Properties of the graph builder (specification Spec) *)

\* C1: after build_graph_bfs(root) no package name containing the non-empty
\* filter substring, letter case ignored, is a key of the graph or a member of
\* a dependency set of the graph, and the graph is empty when the root itself
\* matches the filter.
C1_FilteredNamesAbsent ==
    Built =>
        /\ \A n \in Names :
             MatchesFilter(filter_arg, n) =>
                /\ n \notin DOMAIN graph
                /\ \A p \in DOMAIN graph : n \notin graph[p]
        /\ MatchesFilter(filter_arg, root_package) => graph = EmptyDict

\* C1 witness: a finished build whose root depends on a filtered package and
\* on a kept one
C1_Witness ==
    /\ Built /\ pc = "idle"
    /\ filter_arg = <<"L", "i", "b">>
    /\ root_package = nA
    /\ DependsOn(nA, nLibB)
    /\ nA \in DOMAIN graph /\ graph[nA] = {nC}

\* C3 as stated: when A and B depend on each other and the build reached
\* both, the cycle list holds exactly one of [A,B,A] and [B,A,B].
C3_DirectCycleRecordedOnce ==
    (Built /\ pc = "idle") =>
        \A a, b \in DOMAIN graph :
            (a # b /\ DependsOn(a, b) /\ DependsOn(b, a)) =>
                Cardinality({i \in 1..Len(cycles) :
                                cycles[i] \in {<<a, b, a>>, <<b, a, b>>}}) = 1

\* C4 as stated: every recorded cycle ends with its first element and each
\* later element is a direct dependency, in the built graph, of the element
\* before it.
C4_CyclesAreDependencyChains ==
    (Built /\ pc = "idle") =>
        \A i \in 1..Len(cycles) :
            /\ Last(cycles[i]) = cycles[i][1]
            /\ \A k \in 2..Len(cycles[i]) :
                 cycles[i][k] \in Succ(graph, cycles[i][k - 1])

\* C6 as stated: a second build with the same catalog, root and filter leaves
\* the same graph, the same statistics and the same cycle list as the first.
C6_BuildDeterministic ==
    (Built /\ pc = "idle" /\ nbuilds >= 2 /\ prev.root = root_package) =>
        /\ graph = prev.graph
        /\ cycles = prev.cycles
        /\ get_statistics(graph, cycles) = get_statistics(prev.graph, prev.cycles)

----------------------------------------------------------------------------
(* Properties of the load order planner (specification SpecOrder) *)

LoadOrderRespectsEdges ==
    /\ \A n \in get_all_packages(graph) : InSeq(n, result)
    /\ \A p \in DOMAIN graph : \A d \in graph[p] :
         /\ InSeq(d, result) /\ InSeq(p, result)
         /\ Index(result, d) < Index(result, p)
    /\ result # <<>>
    /\ Last(result) = root_package

\* C2 as stated: on every built graph without a cycle the list returned by
\* get_load_order(root) holds every node, each dependency before its
\* dependents, and the root last.
C2_Original ==
    (OrderedRoot /\ Acyclic(graph)) => LoadOrderRespectsEdges

\* C2 amended: the same, for every built acyclic graph that has the root as a
\* key, that is whenever the root was not filtered out.
C2_LoadOrderTopological ==
    (OrderedRoot /\ Acyclic(graph) /\ root_package \in DOMAIN graph)
        => LoadOrderRespectsEdges

\* C2 witness: the graph {A:{LibB,C}, LibB:{C}, C:{}} ordered as C, LibB, A
C2_Witness ==
    /\ OrderedRoot
    /\ root_package = nA
    /\ graph = (nA :> {nLibB, nC}) @@ (nLibB :> {nC}) @@ (nC :> {})
    /\ result = <<nC, nLibB, nA>>

\* C5: when the built graph has a cycle that does not pass through the root,
\* no node of such a cycle is in the list returned by get_load_order(root),
\* and the root is in the list, as its last element.
C5_CycleNodesAbsent ==
    (OrderedRoot /\ root_package \in DOMAIN graph) =>
        LET g == Without(graph, root_package)
        IN  (\E n \in get_all_packages(g) : OnCycle(g, n)) =>
                /\ \A n \in get_all_packages(g) : OnCycle(g, n) => ~InSeq(n, result)
                /\ result # <<>>
                /\ Last(result) = root_package

\* C5 witness: root A depends on LibB, LibB and C depend on each other, and
\* the returned list is the root alone
C5_Witness ==
    /\ OrderedRoot
    /\ root_package = nA
    /\ graph = (nA :> {nLibB}) @@ (nLibB :> {nC}) @@ (nC :> {nLibB})
    /\ result = <<nA>>

\* C7 as stated: two get_load_order computations on the same graph with the
\* same argument return the same list.
C7_LoadOrderDeterministic ==
    (Built /\ pc = "idle" /\ lo_done /\ norders >= 2 /\ prev_order.root = lo_root)
        => result = prev_order.result

----------------------------------------------------------------------------
(* Properties of _parse_dependencies_line (specification SpecDeps) *)

DepsParsed == deps_result.raised # "NotCalled"

\* C8 as stated: _parse_dependencies_line fails for no input string, and
\* returns the empty set for an empty or all-whitespace input.
C8_ParseNeverFails ==
    DepsParsed =>
        /\ deps_result.raised = None
        /\ Strip(deps_line) = <<>> => deps_result.value = {}

----------------------------------------------------------------------------
(* Properties of the metadata parser (specification SpecParser) *)

\* the blocks of the metadata text
Blocks == Split(packages_content, <<"\n", "\n">>)

\* the catalogs the blocks yield when each is the whole text
BlockCatalogs == [i \in 1..Len(Blocks) |-> parse_packages(Blocks[i]).packages]

\* the blocks that declare package name p, given the catalogs of the blocks
Declaring(cats, p) == {i \in DOMAIN cats : p \in DOMAIN cats[i]}

FirstDeclaring(cats, p) ==
    CHOOSE i \in Declaring(cats, p) : \A k \in Declaring(cats, p) : i <= k

\* C10 as stated: when a later block declares a package name again, the
\* record is the one the first declaring block created, with nothing of the
\* later block written over it or merged into it.
C10_FirstDeclarationWins ==
    parser_pc = "ready" =>
        LET cats == BlockCatalogs
        IN  \A p \in DOMAIN packages :
                Cardinality(Declaring(cats, p)) >= 2 =>
                    packages[p] = cats[FirstDeclaring(cats, p)][p]

\* C10 amended: a later block declaring the same name does not replace the
\* record: the names of the first block stay in it, and the Depends and
\* Pre-Depends names of every later block declaring the name are united into
\* its two sets.
C10_LaterDeclarationsMerge ==
    parser_pc = "ready" =>
        LET cats == BlockCatalogs
        IN  \A p \in DOMAIN packages :
                /\ Declaring(cats, p) # {}
                /\ LET first == cats[FirstDeclaring(cats, p)][p]
                   IN  /\ first.dependencies \subseteq packages[p].dependencies
                       /\ first.pre_dependencies \subseteq packages[p].pre_dependencies
                /\ packages[p].dependencies =
                      UNION {cats[i][p].dependencies : i \in Declaring(cats, p)}
                /\ packages[p].pre_dependencies =
                      UNION {cats[i][p].pre_dependencies : i \in Declaring(cats, p)}

\* C10 witness: "Package: a / Depends: b", a blank line, then
\* "Package: a / Pre-Depends: c" parsed into one record holding b and c
C10_Witness ==
    /\ parser_pc = "ready"
    /\ <<"a">> \in DOMAIN packages
    /\ packages[<<"a">>] = [dependencies |-> {<<"b">>}, pre_dependencies |-> {<<"c">>}]
    /\ LET cats == BlockCatalogs
       IN  /\ Declaring(cats, <<"a">>) = {1, 2}
           /\ cats[1][<<"a">>] = [dependencies |-> {<<"b">>}, pre_dependencies |-> {}]

----------------------------------------------------------------------------
(* PackageNotFoundError: raised by the catalog, absorbed by the builder     *)
(* (specification SpecLookup)                                              *)

\* name is not declared by the catalog
Absent(name) == name \notin DOMAIN packages

\* the names the catalog record of p lists in Depends or Pre-Depends
CatalogDeps(p) == packages[p].dependencies \cup packages[p].pre_dependencies

\* C11: a direct get_package_dependencies(name) raises PackageNotFoundError
\* exactly when name is absent from the catalog, while build_graph_bfs never
\* ends with that error; after a build every dependency that is absent from
\* the catalog (and not filtered) is an edge target of its parent, has no
\* outgoing edges and is no key unless it is the root, and every other kept
\* dependency of that parent that the catalog declares was still walked (it
\* is a key of the graph).
C11_NotFoundAbsorbed ==
    /\ pc # PackageNotFoundError
    /\ lookup # NoLookup =>
         IF Absent(lookup.name)
         THEN lookup.raised = PackageNotFoundError
         ELSE lookup.raised = None /\ lookup.value = CatalogDeps(lookup.name)
    /\ (Built /\ pc = "idle") =>
         \A p \in (DOMAIN graph) \ {n \in Names : Absent(n)} :
           \A d \in {n \in CatalogDeps(p) : Absent(n) /\ ~MatchesFilter(filter_arg, n)} :
             /\ d \in graph[p]
             /\ Succ(graph, d) = {}
             /\ d # root_package => d \notin DOMAIN graph
             /\ \A e \in CatalogDeps(p) \ {d} :
                  (~Absent(e) /\ ~MatchesFilter(filter_arg, e)) => e \in DOMAIN graph

\* C11 witness: after a finished build in which a package has an absent
\* dependency and a declared one, the absent one is an edge target only, the
\* declared one was walked, and a direct lookup of the absent one has raised
C11_Witness ==
    /\ Built /\ pc = "idle"
    /\ lookup.raised = PackageNotFoundError
    /\ \E p \in DOMAIN graph : \E d, e \in graph[p] :
         /\ d = lookup.name
         /\ Absent(d) /\ d \notin DOMAIN graph
         /\ ~Absent(e) /\ e \in DOMAIN graph /\ graph[e] # {}

----------------------------------------------------------------------------
(* build_graph_bfs on a freshly constructed DependencyGraph *)

\* the last build_graph_bfs call has returned and nothing was called since
JustBuilt == Built /\ pc = "idle" /\ lookup = NoLookup /\ norders = 0

\* C12: whatever builds were made before on the instance, the last
\* build_graph_bfs call goes through the states of the same call on a freshly
\* constructed instance, and when it returns the graph, the cycle list and
\* the statistics are those of that fresh build.
C12_NoStateSurvives ==
    /\ graph = fresh.graph
    /\ visited = fresh.visited
    /\ cycles = fresh.cycles
    /\ stack = fresh.stack
    /\ JustBuilt =>
          /\ fresh.stack = <<>>
          /\ get_statistics(graph, cycles) = get_statistics(fresh.graph, fresh.cycles)

\* C12 witness: a second build has finished whose root differs from the
\* first build's, after a first build that left packages visited, a cycle and
\* a graph other than the second one's
C12_Witness ==
    /\ JustBuilt
    /\ nbuilds = 2
    /\ prev.root # root_package
    /\ prev.cycles # <<>>
    /\ prev.graph # graph
    /\ graph # EmptyDict
    /\ cycles = <<>>
    /\ \E p \in DOMAIN prev.graph : p \in DOMAIN graph /\ graph[p] # {}

----------------------------------------------------------------------------
(* Properties of get_load_order (specification SpecOrder), continued *)

\* the indices of seq that hold x
Occurrences(seq, x) == {i \in 1..Len(seq) : seq[i] = x}

\* C13: when the root of the build is a node of the built graph, the list
\* returned by get_load_order(root) holds the root exactly once, as its last
\* element, whether or not the root lies on a cycle.
C13_RootOnceAndLast ==
    (OrderedRoot /\ root_package \in get_all_packages(graph)) =>
        /\ result # <<>>
        /\ Occurrences(result, root_package) = {Len(result)}

\* C13 witness: get_load_order(root) has returned a list of several packages
\* for a root that lies on a cycle
C13_Witness ==
    /\ OrderedRoot
    /\ root_package \in get_all_packages(graph)
    /\ OnCycle(graph, root_package)
    /\ Len(result) > 1

\* a returned list for a root that lies on no cycle and has dependencies
C13_WitnessAcyclic ==
    /\ OrderedRoot
    /\ root_package \in DOMAIN graph
    /\ ~OnCycle(graph, root_package)
    /\ Len(result) > 2

\* C14: get_load_order(name) returns the empty list whenever name is not a
\* node of the graph (neither a key nor a member of a dependency set), as
\* after a build whose root was filtered out, where the graph has no node.
C14_NotANodeGivesEmpty ==
    (pc = "idle" /\ lo_done /\ lo_root \notin get_all_packages(graph)) =>
        result = <<>>

\* C14 witness: get_load_order has returned for a name that is not a node
\* of a built graph that has nodes
C14_Witness ==
    /\ Built /\ pc = "idle" /\ lo_done
    /\ graph # EmptyDict
    /\ lo_root \notin get_all_packages(graph)
    /\ result = <<>>

\* get_load_order(root) has returned after a build whose root was filtered
C14_WitnessFilteredRoot ==
    /\ OrderedRoot
    /\ MatchesFilter(filter_arg, root_package)
    /\ graph = EmptyDict
    /\ result = <<>>

----------------------------------------------------------------------------
(* ConfigParser *)

ConfigError        == "ConfigError"
TypeError          == "TypeError"
UnicodeDecodeError == "UnicodeDecodeError"

\* ConfigParser.REQUIRED_FIELDS
REQUIRED_FIELDS ==
    <<"package_name", "repository_url", "test_mode", "test_repository_path",
      "output_file", "filter_substring">>

\* JSON values as json.load returns them: a str, an int, a bool
Str(s)  == [type |-> "str",  str |-> s,    bool |-> FALSE]
Int123  == [type |-> "int",  str |-> <<>>, bool |-> FALSE]
Bool(b) == [type |-> "bool", str |-> <<>>, bool |-> b]

\* isinstance(v, str), isinstance(v, bool)
IsStr(v)  == v.type = "str"
IsBool(v) == v.type = "bool"

\* the paths that exist on disk: one regular file and one directory
FileSystem == (<<"f">> :> "file") @@ (<<"d">> :> "dir")

\* Path(p).exists(), Path(p).is_file()
PathExists(p) == p \in DOMAIN FileSystem
PathIsFile(p) == PathExists(p) /\ FileSystem[p] = "file"

RECURSIVE RFind(_, _, _)
\* s.rfind(c) searched from index i down, 0 when c does not occur
RFind(s, c, i) == IF i = 0 THEN 0 ELSE IF s[i] = c THEN i ELSE RFind(s, c, i - 1)

\* Path(p).name: what follows the last "/"
PathName(p) == SubSeq(p, RFind(p, "/", Len(p)) + 1, Len(p))

\* Path(p).suffix: the name from its last "." on, when that "." is neither
\* the first nor the last character of the name
PathSuffix(p) ==
    LET name == PathName(p)
        i    == RFind(name, ".", Len(name))
    IN  IF 1 < i /\ i < Len(name) THEN SubSeq(name, i, Len(name)) ELSE <<>>

\* valid_extensions of _validate_config
valid_extensions ==
    { <<".", "s", "v", "g">>, <<".", "p", "n", "g">>,
      <<".", "p", "d", "f">>, <<".", "d", "o", "t">> }

http  == <<"h", "t", "t", "p", ":", "/", "/">>
https == <<"h", "t", "t", "p", "s", ":", "/", "/">>

\* the names f for which `f in self.config` is true: the keys of a dict, the
\* elements of a list, the substrings of a str
HeldFields(file) ==
    IF file.top = "object" THEN DOMAIN file.fields ELSE file.members

\* ConfigParser._validate_config on the loaded value: the exception it raises
\* (None when every rule passes) and the rule that raised it
validate_config(file) ==
    LET c == file.fields
        required == {REQUIRED_FIELDS[i] : i \in 1..Len(REQUIRED_FIELDS)}
        fail(rule) == [raised |-> ConfigError, rule |-> rule]
    IN  IF file.top \in {"null", "number", "boolean"}
        THEN [raised |-> TypeError, rule |-> "field not in self.config"]
        ELSE IF required \ HeldFields(file) # {} THEN fail("missing_fields")
        ELSE IF file.top # "object"
        THEN [raised |-> TypeError, rule |-> "self.config['package_name']"]
        ELSE IF ~IsStr(c["package_name"]) \/ Strip(c["package_name"].str) = <<>>
        THEN fail("package_name")
        ELSE IF ~IsStr(c["repository_url"]) \/ Strip(c["repository_url"].str) = <<>>
        THEN fail("repository_url")
        ELSE IF ~IsBool(c["test_mode"]) THEN fail("test_mode")
        ELSE IF ~IsStr(c["test_repository_path"]) THEN fail("test_repository_path")
        ELSE IF /\ c["test_mode"].bool
                /\ \/ Strip(c["test_repository_path"].str) = <<>>
                   \/ ~PathExists(c["test_repository_path"].str)
                   \/ ~PathIsFile(c["test_repository_path"].str)
        THEN fail("test_repository_path in test mode")
        ELSE IF ~IsStr(c["output_file"]) \/ Strip(c["output_file"].str) = <<>>
        THEN fail("output_file")
        ELSE IF Lower(PathSuffix(c["output_file"].str)) \notin valid_extensions
        THEN fail("output_file extension")
        ELSE IF ~IsStr(c["filter_substring"]) THEN fail("filter_substring")
        ELSE IF /\ ~c["test_mode"].bool
                /\ ~StartsWith(Strip(c["repository_url"].str), http)
                /\ ~StartsWith(Strip(c["repository_url"].str), https)
        THEN fail("repository_url scheme")
        ELSE [raised |-> None, rule |-> "none"]

\* ConfigParser.load_config: the exception that leaves it, or None and the
\* configuration it returns
load_config(file) ==
    LET out(raised, rule) ==
            [raised |-> raised, rule |-> rule,
             config |-> IF raised = None THEN file.fields ELSE EmptyDict]
    IN  IF file.state = "missing" THEN out(ConfigError, "os.path.exists")
        ELSE IF file.state = "directory" THEN out(ConfigError, "IOError")
        ELSE IF file.state = "not_utf8" THEN out(UnicodeDecodeError, "json.load")
        ELSE IF file.state = "not_json" THEN out(ConfigError, "JSONDecodeError")
        ELSE out(validate_config(file).raised, validate_config(file).rule)

\* ConfigParser(config_path).load_config()
LoadConfig ==
    /\ config_outcome.raised = "NotCalled"
    /\ config_outcome' = load_config(config_file)
    /\ UNCHANGED <<config_file, parserVars, depsVars, buildVars, orderVars>>

----------------------------------------------------------------------------
(* Specification of ConfigParser.load_config *)

\* a field the JSON object does not have
Missing == [type |-> "missing", str |-> <<>>, bool |-> FALSE]

PackageNameValues == {Int123, Str(<<>>), Str(<<" ">>), Str(<<"f", "x">>)}
RepositoryUrlValues ==
    {Int123, Str(<<>>), Str(http \o <<"e">>), Str(https \o <<"e">>),
     Str(<<" ">> \o http \o <<"e">>), Str(<<"f", "t", "p", ":", "/", "/", "e">>)}
TestModeValues == {Bool(TRUE), Bool(FALSE), Str(<<"t", "r", "u", "e">>), Int123}
TestRepositoryPathValues ==
    {Int123, Str(<<>>), Str(<<"f">>), Str(<<"d">>), Str(<<"n">>)}
OutputFileValues ==
    {Int123, Str(<<>>), Str(<<"g", ".", "s", "v", "g">>),
     Str(<<"g", ".", "D", "o", "t">>), Str(<<"g", ".", "t", "x", "t">>),
     Str(<<".", "p", "n", "g">>)}
FilterSubstringValues == {Int123, Str(<<>>), Str(<<"l", "i", "b">>)}

\* the JSON objects: each required field missing or with one of its values
ObjectFields ==
    {LET all == ("package_name" :> pn) @@ ("repository_url" :> ru)
                @@ ("test_mode" :> tm) @@ ("test_repository_path" :> tp)
                @@ ("output_file" :> of) @@ ("filter_substring" :> fs)
     IN  [k \in {x \in DOMAIN all : all[x] # Missing} |-> all[k]] :
        pn \in PackageNameValues \cup {Missing},
        ru \in RepositoryUrlValues \cup {Missing},
        tm \in TestModeValues \cup {Missing},
        tp \in TestRepositoryPathValues \cup {Missing},
        of \in OutputFileValues \cup {Missing},
        fs \in FilterSubstringValues \cup {Missing}}

\* what config_path can name: nothing, a directory, bytes that are not
\* UTF-8, text that is not JSON, or a JSON document (an object, null, a
\* number, a boolean, a list or a string holding none or all of the names)
ConfigFiles ==
    {[state |-> s, top |-> "object", fields |-> EmptyDict, members |-> {}] :
        s \in {"missing", "directory", "not_utf8", "not_json"}}
    \cup {[state |-> "json", top |-> "object", fields |-> f, members |-> {}] :
            f \in ObjectFields}
    \cup {[state |-> "json", top |-> t, fields |-> EmptyDict, members |-> {}] :
            t \in {"null", "number", "boolean", "array", "string"}}
    \cup {[state |-> "json", top |-> t, fields |-> EmptyDict,
           members |-> {REQUIRED_FIELDS[i] : i \in 1..Len(REQUIRED_FIELDS)}] :
            t \in {"array", "string"}}

InitConfig ==
    /\ config_file \in ConfigFiles
    /\ config_outcome = [raised |-> "NotCalled", rule |-> "none",
                         config |-> EmptyDict]
    /\ packages = EmptyDict
    /\ packages_content = <<>>
    /\ parser_pc = "ready"
    /\ lookup = NoLookup
    /\ deps_line = <<>>
    /\ expr = <<>>
    /\ deps_result = [raised |-> "NotCalled", value |-> {}]
    /\ filter_arg = <<>>
    /\ filter_substring = <<>>
    /\ graph = EmptyDict
    /\ visited = {}
    /\ cycles = <<>>
    /\ root_package = <<>>
    /\ stack = <<>>
    /\ pc = "idle"
    /\ nbuilds = 0
    /\ prev = [root |-> <<>>, graph |-> EmptyDict, cycles |-> <<>>]
    /\ entered = NoEntries
    /\ fresh = NewGraph
    /\ lo_root = <<>>
    /\ in_degree = EmptyDict
    /\ queue = <<>>
    /\ processed = {}
    /\ result = <<>>
    /\ lo_done = FALSE
    /\ norders = 0
    /\ prev_order = [root |-> <<>>, result |-> <<>>]

NextConfig == LoadConfig

SpecConfig == InitConfig /\ [][NextConfig]_vars

----------------------------------------------------------------------------
(* Properties of ConfigParser.load_config (specification SpecConfig) *)

\* the file holds a JSON object
IsObject(file) == file.state = "json" /\ file.top = "object"

\* the configuration has field f
Has(file, f) == IsObject(file) /\ f \in DOMAIN file.fields

\* field f is there and is a string that is not blank
NonBlankString(file, f) ==
    /\ Has(file, f)
    /\ file.fields[f].type = "str"
    /\ \E i \in 1..Len(file.fields[f].str) : ~IsSpace(file.fields[f].str[i])

\* field f is there with the boolean value b
IsBoolean(file, f, b) ==
    Has(file, f) /\ file.fields[f].type = "bool" /\ file.fields[f].bool = b

\* the configuration breaks one of the listed rules
InvalidConfig(file) ==
    \/ file.state = "missing"
    \/ file.state \in {"not_json", "not_utf8"}
    \/ \E i \in 1..Len(REQUIRED_FIELDS) : ~Has(file, REQUIRED_FIELDS[i])
    \/ ~NonBlankString(file, "package_name")
    \/ ~NonBlankString(file, "repository_url")
    \/ ~NonBlankString(file, "output_file")
    \/ ~(IsBoolean(file, "test_mode", TRUE) \/ IsBoolean(file, "test_mode", FALSE))
    \/ /\ IsBoolean(file, "test_mode", TRUE)
       /\ \/ ~NonBlankString(file, "test_repository_path")
          \/ ~PathIsFile(file.fields["test_repository_path"].str)
    \/ Lower(PathSuffix(file.fields["output_file"].str)) \notin valid_extensions
    \/ file.fields["filter_substring"].type # "str"
    \/ /\ IsBoolean(file, "test_mode", FALSE)
       /\ ~StartsWith(Strip(file.fields["repository_url"].str), http)
       /\ ~StartsWith(Strip(file.fields["repository_url"].str), https)

\* C15: load_config ends with ConfigError or returns normally, never with
\* another exception; it raises ConfigError for every configuration that
\* breaks a rule (file missing, not valid JSON, a required field absent,
\* package_name / repository_url / output_file not a non-blank string,
\* test_mode not a boolean, test mode with a test_repository_path that is
\* blank or no existing file, an output_file extension outside .svg .png .pdf
\* .dot, filter_substring not a string, a repository_url without http:// or
\* https:// outside test mode), so that it returns the configuration only
\* when every rule passes.
C15_InvalidConfigIsConfigError ==
    config_outcome.raised # "NotCalled" =>
        /\ config_outcome.raised \in {None, ConfigError}
        /\ InvalidConfig(config_file) => config_outcome.raised = ConfigError
        /\ config_outcome.raised = None => config_outcome.config = config_file.fields

\* the file is missing, is text that is not JSON, or holds a JSON object
ObjectOrListedFile(file) == file.state \in {"missing", "not_json"} \/ IsObject(file)

\* load_config does as C15 says on every file that is missing, is text that
\* is not JSON or holds a JSON object; it returns exactly the objects that
\* break no rule and have a string test_repository_path
C15_HoldsForObjects ==
    (config_outcome.raised # "NotCalled" /\ ObjectOrListedFile(config_file)) =>
        /\ config_outcome.raised \in {None, ConfigError}
        /\ InvalidConfig(config_file) => config_outcome.raised = ConfigError
        /\ config_outcome.raised = None <=>
              /\ ~InvalidConfig(config_file)
              /\ config_file.fields["test_repository_path"].type = "str"

\* load_config has returned a configuration
C15_Returned == config_outcome.raised = None /\ config_outcome.config # EmptyDict

\* load_config has ended with an exception that is not ConfigError
C15_OtherException == config_outcome.raised \in {TypeError, UnicodeDecodeError}

----------------------------------------------------------------------------
(* Properties of the graph builder (specification Spec), continued *)

\* the dependencies of a declared package that the filter keeps
KeptDeps(p) == {d \in CatalogDeps(p) : ~MatchesFilter(filter_arg, d)}

\* the catalog as a graph over the declared packages the filter keeps
KeptCatalog ==
    [p \in {n \in DOMAIN packages : ~MatchesFilter(filter_arg, n)} |-> KeptDeps(p)]

\* C16: after a build with a root the filter keeps, the keys of the graph
\* are the root and every declared package reachable from it along kept
\* dependencies, and the edge set of every key is the whole Depends and
\* Pre-Depends set of its catalog record without the filtered names (the
\* empty set for a root the catalog does not declare): the visited set leaves
\* no reachable package without its edges.
C16_TransitiveClosure ==
    (Built /\ pc = "idle" /\ ~MatchesFilter(filter_arg, root_package)) =>
        /\ DOMAIN graph =
             {root_package} \cup
             {p \in ReachFrom(KeptCatalog, {root_package}) : ~Absent(p)}
        /\ \A p \in DOMAIN graph :
             IF Absent(p)
             THEN p = root_package /\ graph[p] = {}
             ELSE graph[p] = KeptDeps(p)

\* C16 witness: a finished build in which a package with dependencies of its
\* own is a dependency of two other keys, one of them not the root, and a
\* Pre-Depends name is among the edges
C16_Witness ==
    /\ Built /\ pc = "idle"
    /\ \E d \in DOMAIN graph : \E p1, p2 \in (DOMAIN graph) \ {d} :
         /\ p1 = root_package /\ p2 # root_package
         /\ d \in graph[p1] /\ d \in graph[p2] /\ p2 \in graph[p1]
         /\ graph[d] # {}
    /\ \E p \in DOMAIN graph : ~Absent(p) /\ packages[p].pre_dependencies # {}

\* C17: a build records at most one cycle, and a recorded cycle starts and
\* ends with the root of the build; a cycle that does not pass through the
\* root is never recorded.
C17_OneCycleThroughRoot ==
    /\ Len(cycles) <= 1
    /\ \A i \in 1..Len(cycles) :
         /\ Len(cycles[i]) >= 2
         /\ cycles[i][1] = root_package
         /\ Last(cycles[i]) = root_package

\* C17 witness: a finished build that recorded a cycle, of a graph that also
\* has a cycle that does not pass through the root
C17_Witness ==
    /\ Built /\ pc = "idle"
    /\ Len(cycles) = 1
    /\ \E n \in Names \ {root_package} : OnCycle(Without(graph, root_package), n)

----------------------------------------------------------------------------
(* Termination of build_graph_bfs *)

\* one build_graph_bfs call on a new DependencyGraph
NextOneBuild ==
    \/ \E root \in Names : FirstBuild(root)
    \/ BfsVisitDep
    \/ BfsReturn

\* a running call goes on: the loop of the innermost activation takes its
\* next iteration, an exhausted loop returns
SpecTerminates ==
    Init /\ [][NextOneBuild]_vars /\ WF_vars(BfsVisitDep) /\ WF_vars(BfsReturn)

\* every package but the root was entered at most once, the root at most
\* twice
EnteredAtMostOnce ==
    \A n \in Names : entered[n] <= IF n = root_package THEN 2 ELSE 1

\* every activation has recorded the edges to all the dependencies its loop
\* has visited or is still to visit, already visited ones included
EdgesRecordedBeforeWalk ==
    \A i \in 1..Len(stack) :
        /\ stack[i].package \in DOMAIN graph
        /\ stack[i].todo \subseteq graph[stack[i].package]
        /\ graph[stack[i].package] = KeptDeps(stack[i].package)

\* C18: every build_graph_bfs call returns, for cyclic catalogs as well;
\* during a build each package other than the root is entered by
\* _bfs_with_recursion at most once and the root at most twice, and the edge
\* to a dependency is in the graph whether or not the dependency was visited
\* before through another parent.
C18_BuildTerminates ==
    /\ [](EnteredAtMostOnce /\ EdgesRecordedBeforeWalk)
    /\ (pc = "build") ~> (pc = "idle")

\* C18 witness: a build of a cyclic graph has returned in which the root was
\* entered twice and a package entered once is a dependency of two keys
C18_Witness ==
    /\ Built /\ pc = "idle"
    /\ entered[root_package] = 2
    /\ \E d \in Names \ {root_package} :
         /\ entered[d] = 1
         /\ \E p1, p2 \in DOMAIN graph :
              p1 # p2 /\ d \in graph[p1] /\ d \in graph[p2] /\ d \notin {p1, p2}

====
